---- MODULE Spec2Model ----
(***************************************************************************)
(* A model of src/app.py: the header-option extractor get_header_opt, the  *)
(* multipart/form-data decoder parse_multipart, and the handler do_POST    *)
(* for the path /upload, which saves the decoded parts.  Bytes and         *)
(* characters are one-character strings; byte strings and text are         *)
(* sequences of them.  parse_multipart is a state machine with one step    *)
(* per readline() call, and do_POST takes one step per part and one for    *)
(* its redirect.  SpecOpt runs get_header_opt alone; SpecRace runs the     *)
(* save steps of two handler threads that write one filename.              *)
(***************************************************************************)
EXTENDS Integers, Sequences, FiniteSets, TLC

\* ------------------------------------------------------------- bounds
\* longest list of parts of an encoded body
MaxParts == 2
\* longest payload of the exhaustive single-part bodies, in bytes
MaxPayload == 5
\* longest stream of the line-built streams, in lines
MaxLines == 6
\* longest header of the token-built headers, in tokens
MaxTokens == 5
\* bytes in the payload of each of two concurrent uploads
MaxFileLen == 2

\* ------------------------------------------------------------- characters
CR == "\r"
LF == "\n"
QUOTE == "\""
CRLF == <<CR, LF>>
\* what the regex class \s, str.strip() and bytes.rstrip() treat as blank
Whitespace == {" ", "\t", "\n", "\r", "\f"}

\* line 23
FILEDIR == <<"t", "m", "p">>

\* lines 107-110: two of the strings rand_b32_str() can return
RandB32 == {<<"a", "a", "a", "a", "a", "a", "a", "a">>, <<"m", "z", "x", "w", "6", "y", "t", "b">>}

Min(S) == CHOOSE x \in S : \A y \in S : x <= y

\* bytes.startswith
StartsWith(s, prefix) ==
    /\ Len(s) >= Len(prefix)
    /\ SubSeq(s, 1, Len(prefix)) = prefix

\* the literal p occurs in s at index i
MatchAt(s, i, p) ==
    /\ i + Len(p) - 1 <= Len(s)
    /\ SubSeq(s, i, i + Len(p) - 1) = p

\* a greedy character class: the index of the last character of the longest
\* run of characters outside Stop that starts at j (j - 1 when it is empty)
RunEnd(s, j, Stop) ==
    IF \E k \in j..Len(s) : s[k] \in Stop
    THEN Min({k \in j..Len(s) : s[k] \in Stop}) - 1
    ELSE Len(s)

\* str.strip() and bytes.rstrip()
RECURSIVE rstrip(_)
rstrip(s) ==
    IF s # <<>> /\ s[Len(s)] \in Whitespace THEN rstrip(SubSeq(s, 1, Len(s) - 1)) ELSE s

RECURSIVE lstrip(_)
lstrip(s) ==
    IF s # <<>> /\ s[1] \in Whitespace THEN lstrip(Tail(s)) ELSE s

strip(s) == lstrip(rstrip(s))

\* ------------------------------------------------------------- get_header_opt
\* first alternative of the pattern at index i:  key=([^\s";]+)
UnquotedAt(key, header, i) ==
    LET j == i + Len(key) + 1
        e == RunEnd(header, j, Whitespace \cup {QUOTE, ";"})
    IN  IF MatchAt(header, i, key \o <<"=">>) /\ e >= j
        THEN [ok |-> TRUE, val |-> SubSeq(header, j, e)]
        ELSE [ok |-> FALSE, val |-> <<>>]

\* second alternative of the pattern at index i:  key="([^"]+)"
QuotedAt(key, header, i) ==
    LET j == i + Len(key) + 2
        e == RunEnd(header, j, {QUOTE})
    IN  IF MatchAt(header, i, key \o <<"=", QUOTE>>) /\ e >= j /\ e < Len(header)
        THEN [ok |-> TRUE, val |-> SubSeq(header, j, e)]
        ELSE [ok |-> FALSE, val |-> <<>>]

\* p.search(header): the leftmost index at which an alternative matches
SearchHits(key, header) ==
    {i \in 1..Len(header) : UnquotedAt(key, header, i).ok \/ QuotedAt(key, header, i).ok}

\* MatchValue returning group b as matched, without b.strip()
MatchValueUnstripped(key, header, i) ==
    LET a == UnquotedAt(key, header, i)
        b == QuotedAt(key, header, i)
    IN  IF a.ok THEN a.val ELSE b.val

\* the value returned for the match at index i: group a when the first
\* alternative matched, else group b stripped
MatchValue(key, header, i) ==
    LET a == UnquotedAt(key, header, i)
        b == QuotedAt(key, header, i)
    IN  IF a.ok THEN a.val ELSE strip(b.val)

get_header_opt(key, header) ==
    LET hits == SearchHits(key, header)
    IN  IF hits = {} THEN <<>> ELSE MatchValue(key, header, Min(hits))

\* ------------------------------------------------------------- the stream
\* req_body.readline() at read position p: the bytes up to and including the
\* next LF, the rest of the stream when there is none, empty at end-of-stream
ReadLine(s, p) ==
    IF p > Len(s) THEN <<>>
    ELSE IF \E k \in p..Len(s) : s[k] = LF
         THEN SubSeq(s, p, Min({k \in p..Len(s) : s[k] = LF}))
         ELSE SubSeq(s, p, Len(s))

\* the delimiter lines of lines 134-135
Separator(b) == <<"-", "-">> \o b \o CRLF

\* Terminator without the closing two dashes
TerminatorUnclosed(b) == <<"-", "-">> \o b \o CRLF

Terminator(b) == <<"-", "-">> \o b \o <<"-", "-">> \o CRLF

\* a delimiter test that also ends the content at a Content-Disposition line
IsDelimiterOrDisposition(l, sep, term) ==
    l = sep \/ l = term \/ (Len(l) >= 20 /\ SubSeq(l, 1, 20) = <<"C", "o", "n", "t", "e", "n", "t", "-", "D", "i", "s", "p", "o", "s", "i", "t", "i", "o", "n", ":">>)

\* IsDelimiter comparing only the start of the line with the delimiter tokens
IsDelimiterPrefix(l, sep, term) ==
    \/ StartsWith(l, SubSeq(sep, 1, Len(sep) - 2))
    \/ StartsWith(l, SubSeq(term, 1, Len(term) - 2))

\* line 166: line in (separator, terminator)
IsDelimiter(l, sep, term) == l = sep \/ l = term

ContentDispositionPrefix == <<"C", "o", "n", "t", "e", "n", "t", "-", "D", "i", "s", "p", "o", "s", "i", "t", "i", "o", "n", ":">>

\* a temporary file used as a byte buffer: its bytes and its file position
NewBuf == [data |-> <<>>, pos |-> 0]

\* buf.write(line) at the file position (always the end while decoding)
BufWrite(b, l) == [data |-> SubSeq(b.data, 1, b.pos) \o l, pos |-> b.pos + Len(l)]

\* buf.seek(-2, 2) raises OSError when the file is shorter than two bytes
CanSeal(b) == Len(b.data) >= 2

\* Seal followed by a rewind of the buffer to its first byte
SealRewound(b) == [data |-> SubSeq(b.data, 1, Len(b.data) - 2), pos |-> 0]

\* Seal cutting one byte, as buf.seek(-1, 2) would
SealOneByte(b) == [data |-> SubSeq(b.data, 1, Len(b.data) - 1), pos |-> Len(b.data) - 1]

\* buf.seek(-2, 2); buf.truncate()
Seal(b) == [data |-> SubSeq(b.data, 1, Len(b.data) - 2), pos |-> Len(b.data) - 2]

\* ------------------------------------------------------------- inputs
\* the value of req_headers["Content-Type"] when the request has no such header
None == <<"None">>

BoundaryX == <<"X">>

\* a Content-Type value declaring boundary b bare, quoted, or not at all
ContentTypeBare(b) == <<"m", "u", "l", "t", "i", "p", "a", "r", "t", "/", "f", "o", "r", "m", "-", "d", "a", "t", "a", ";", " ", "b", "o", "u", "n", "d", "a", "r", "y", "=">> \o b
ContentTypeQuoted(b) == <<"m", "u", "l", "t", "i", "p", "a", "r", "t", "/", "f", "o", "r", "m", "-", "d", "a", "t", "a", ";", " ", "b", "o", "u", "n", "d", "a", "r", "y", "=", "\"">> \o b \o <<"\"">>
ContentTypeNoBoundary == <<"m", "u", "l", "t", "i", "p", "a", "r", "t", "/", "f", "o", "r", "m", "-", "d", "a", "t", "a">>

ContentTypes ==
    {ContentTypeBare(BoundaryX), ContentTypeQuoted(BoundaryX), ContentTypeNoBoundary, None}

\* one parameter of a Content-Disposition line, as a browser writes it
Param(key, v) == <<";", " ">> \o key \o <<"=", QUOTE>> \o v \o <<QUOTE>>

\* the Content-Disposition line of a source part
DispositionLine(part) ==
    LET n == IF part.has_name THEN Param(<<"n", "a", "m", "e">>, part.name) ELSE <<>>
        f == IF part.has_filename THEN Param(<<"f", "i", "l", "e", "n", "a", "m", "e">>, part.filename) ELSE <<>>
    IN  <<"C", "o", "n", "t", "e", "n", "t", "-", "D", "i", "s", "p", "o", "s", "i", "t", "i", "o", "n", ":", " ", "f", "o", "r", "m", "-", "d", "a", "t", "a">>
            \o (IF part.name_first THEN n \o f ELSE f \o n) \o CRLF

\* the delimiter lines a client writes for boundary b
WireSeparator(b) == <<"-", "-">> \o b \o <<"\r", "\n">>
WireTerminator(b) == <<"-", "-">> \o b \o <<"-", "-", "\r", "\n">>

\* one part on the wire: separator, headers, blank line, payload, CRLF
EncodePart(part, b) ==
    WireSeparator(b) \o DispositionLine(part) \o CRLF \o part.payload \o CRLF

RECURSIVE EncodeParts(_, _)
EncodeParts(parts, b) ==
    IF parts = <<>> THEN <<>>
    ELSE EncodePart(Head(parts), b) \o EncodeParts(Tail(parts), b)

\* a whole multipart/form-data body
Encode(parts, b) == EncodeParts(parts, b) \o WireTerminator(b)

SeqsUpTo(S, n) == UNION {[1..k -> S] : k \in 0..n}

RECURSIVE Flatten(_)
Flatten(ls) == IF ls = <<>> THEN <<>> ELSE Head(ls) \o Flatten(Tail(ls))

Part(n, hn, f, hf, nf, p) ==
    [name |-> n, has_name |-> hn, filename |-> f, has_filename |-> hf,
     name_first |-> nf, payload |-> p]

\* parts as a browser form submits them: name first, filename for file inputs
WirePayloads == {<<>>, <<"a">>, <<"a", "\r", "\n", "b">>}
WireParts ==
    {Part(<<"t", "e", "x", "t">>, TRUE, <<>>, FALSE, TRUE, p) : p \in WirePayloads}
    \cup {Part(<<"f", "i", "l", "e", "s">>, TRUE, f, TRUE, TRUE, p) :
            f \in {<<>>, <<"f">>}, p \in WirePayloads}

\* every shape of Content-Disposition line: each parameter absent, empty or
\* set, in either order
DispositionParts ==
    {Part(n, hn, f, hf, nf, <<"a">>) :
        n \in {<<>>, <<"t", "e", "x", "t">>}, hn \in BOOLEAN,
        f \in {<<>>, <<"f">>}, hf \in BOOLEAN, nf \in BOOLEAN}

\* payload bytes of the exhaustive single-part bodies
PayloadBytes == {"a", "-", "X", CR, LF}

\* payloads that hold a whole delimiter line after a line of content, the
\* line ended by CRLF or by a bare LF
FramedPayloads ==
    {<<"a", "\r", "\n", "-", "-", "X", "-", "-">>, <<"a", "\r", "\n", "-", "-", "X", "\r", "\n", "b">>, <<"\n", "-", "-", "X", "-", "-">>, <<"a", "\n", "-", "-", "X", "-", "-">>}

\* header lines a client may send with a part besides Content-Disposition
ExtraHeaderLines == {<<"C", "o", "n", "t", "e", "n", "t", "-", "T", "y", "p", "e", ":", " ", "t", "\r", "\n">>, <<"X", "-", "A", ":", " ", "1", "\r", "\n">>}

\* what is sent before the Content-Disposition line, and what between it and
\* the blank line
PreHeaders == {<<>>, <<"C", "o", "n", "t", "e", "n", "t", "-", "T", "y", "p", "e", ":", " ", "t", "\r", "\n">>}
PostHeaders == {<<>>, <<"C", "o", "n", "t", "e", "n", "t", "-", "T", "y", "p", "e", ":", " ", "t", "\r", "\n">>, <<"C", "o", "n", "t", "e", "n", "t", "-", "T", "y", "p", "e", ":", " ", "t", "\r", "\n", "X", "-", "A", ":", " ", "1", "\r", "\n">>}

\* one part on the wire with extra header lines around its
\* Content-Disposition line
EncodePartWith(part, h, b) ==
    WireSeparator(b) \o h.pre \o DispositionLine(part) \o h.post
        \o CRLF \o part.payload \o CRLF

RECURSIVE EncodePartsWith(_, _, _)
EncodePartsWith(parts, hs, b) ==
    IF parts = <<>> THEN <<>>
    ELSE EncodePartWith(Head(parts), Head(hs), b)
             \o EncodePartsWith(Tail(parts), Tail(hs), b)

\* the parts of the bodies with extra header lines
HeaderedParts ==
    {Part(<<"t", "e", "x", "t">>, TRUE, <<>>, FALSE, TRUE, <<"a">>),
     Part(<<"t", "e", "x", "t">>, TRUE, <<>>, FALSE, TRUE, <<>>),
     Part(<<"f", "i", "l", "e", "s">>, TRUE, <<"f">>, TRUE, TRUE, <<"a">>)}

\* lines of the line-built streams
RawLines ==
    {WireSeparator(BoundaryX), WireTerminator(BoundaryX), <<"\r", "\n">>, <<"a", "\r", "\n">>,
     <<"C", "o", "n", "t", "e", "n", "t", "-", "D", "i", "s", "p", "o", "s", "i", "t", "i", "o", "n", ":", " ", "f", "o", "r", "m", "-", "d", "a", "t", "a", ";", " ", "n", "a", "m", "e", "=", "\"", "t", "e", "x", "t", "\"", "\r", "\n">>}

\* ------------------------------------------------------------- state
VARIABLES
    content_type,         \* req_headers["Content-Type"]
    req_body,             \* the bytes of the request body stream
    offset,               \* how many bytes of req_body have been read
    pc,                   \* where parse_multipart is
    boundary,
    separator,
    terminator,
    multipart_form_data,
    line,
    form_name,
    filename,
    buf,
    src_parts,            \* the parts the body was encoded from (<<>>: none)
    src_boundary,         \* the boundary the body was encoded with
    opt_key,              \* get_header_opt called on its own: its key,
    opt_header,           \*   its header,
    opt_value,            \*   the value it returned,
    opt_pc,               \*   and whether it has been called
    handled,              \* do_POST: how many parts its loop has been through
    stored,               \* do_POST: the files it has written, in order
    closed,               \* do_POST: the parts whose buffer it has closed
    response,             \* do_POST: the response it has sent
    disk,                 \* two uploads of one filename: the bytes of the file
    t_pc,                 \*   where each handler thread is in lines 240-243
    t_data                \*   and the content of the buffer it saves

vars ==
    <<content_type, req_body, offset, pc, boundary, separator, terminator,
      multipart_form_data, line, form_name, filename, buf, src_parts, src_boundary,
      opt_key, opt_header, opt_value, opt_pc, handled, stored, closed, response,
      disk, t_pc, t_data>>

opt_vars == <<opt_key, opt_header, opt_value, opt_pc>>

post_vars == <<handled, stored, closed, response>>

race_vars == <<disk, t_pc, t_data>>

\* line 287: ThreadingHTTPServer runs each request on a thread of its own
Threads == {1, 2}

parse_vars ==
    <<content_type, req_body, offset, pc, boundary, separator, terminator,
      multipart_form_data, line, form_name, filename, buf, src_parts, src_boundary>>

\* the locals of parse_multipart before the call
InitLocals ==
    /\ offset = 0
    /\ pc = "start"
    /\ boundary = <<>>
    /\ separator = <<>>
    /\ terminator = <<>>
    /\ multipart_form_data = <<>>
    /\ line = <<>>
    /\ form_name = <<>>
    /\ filename = <<>>
    /\ buf = NewBuf

\* do_POST before it has called parse_multipart
InitHandler ==
    /\ handled = 0
    /\ stored = <<>>
    /\ closed = {}
    /\ response = "none"

\* no concurrent upload under way
InitNoRace ==
    /\ disk = <<>>
    /\ t_pc = [t \in Threads |-> "idle"]
    /\ t_data = [t \in Threads |-> <<>>]

\* bodies of one or more form parts, under every Content-Type value
InitWire ==
    /\ content_type \in ContentTypes
    /\ src_boundary \in {BoundaryX, <<>>}
    /\ src_parts \in SeqsUpTo(WireParts, MaxParts) \ {<<>>}
    /\ req_body = Encode(src_parts, src_boundary)

\* single-part bodies with every shape of Content-Disposition line
InitDisposition ==
    /\ content_type = ContentTypeBare(BoundaryX)
    /\ src_boundary = BoundaryX
    /\ \E part \in DispositionParts : src_parts = <<part>>
    /\ req_body = Encode(src_parts, src_boundary)

\* single-part bodies with every payload of up to MaxPayload bytes
InitRoundTrip ==
    /\ content_type = ContentTypeBare(BoundaryX)
    /\ src_boundary = BoundaryX
    /\ \E p \in SeqsUpTo(PayloadBytes, MaxPayload) \cup FramedPayloads :
           src_parts = <<Part(<<"t", "e", "x", "t">>, TRUE, <<>>, FALSE, TRUE, p)>>
    /\ req_body = Encode(src_parts, src_boundary)

\* bodies whose parts carry extra header lines
InitExtraHeaders ==
    /\ content_type = ContentTypeBare(BoundaryX)
    /\ src_boundary = BoundaryX
    /\ src_parts \in SeqsUpTo(HeaderedParts, MaxParts) \ {<<>>}
    /\ \E hs \in [DOMAIN src_parts -> [pre : PreHeaders, post : PostHeaders]] :
           req_body = EncodePartsWith(src_parts, hs, src_boundary)
                          \o WireTerminator(src_boundary)

\* arbitrary streams of up to MaxLines lines, well-formed or not
InitRaw ==
    /\ content_type = ContentTypeBare(BoundaryX)
    /\ src_boundary = BoundaryX
    /\ src_parts = <<>>
    /\ \E ls \in SeqsUpTo(RawLines, MaxLines) : req_body = Flatten(ls)

Init ==
    /\ InitLocals
    /\ \/ InitWire
       \/ InitDisposition
       \/ InitRoundTrip
       \/ InitExtraHeaders
       \/ InitRaw
    /\ InitHandler
    /\ InitNoRace
    /\ opt_key = <<>>
    /\ opt_header = <<>>
    /\ opt_value = <<>>
    /\ opt_pc = "idle"

\* ------------------------------------------------------------- parse_multipart
NextLine == ReadLine(req_body, offset + 1)

\* lines 132-137.  p.search(None) raises TypeError.
Start ==
    /\ pc = "start"
    /\ IF content_type = None
       THEN /\ pc' = "raised"
            /\ UNCHANGED <<boundary, separator, terminator>>
       ELSE /\ boundary' = get_header_opt(<<"b", "o", "u", "n", "d", "a", "r", "y">>, content_type)
            /\ separator' = Separator(boundary')
            /\ terminator' = Terminator(boundary')
            /\ pc' = "first_boundary"
    /\ UNCHANGED <<content_type, req_body, offset, multipart_form_data, line,
                   form_name, filename, buf, src_parts, src_boundary, opt_vars, post_vars, race_vars>>

\* lines 140-142: one pass of the loop that looks for the first separator
SeekFirstBoundary ==
    /\ pc = "first_boundary"
    /\ offset' = offset + Len(NextLine)
    /\ pc' = IF NextLine = separator THEN "disposition" ELSE "first_boundary"
    /\ UNCHANGED <<content_type, req_body, boundary, separator, terminator,
                   multipart_form_data, line, form_name, filename, buf,
                   src_parts, src_boundary, opt_vars, post_vars, race_vars>>

\* lines 146-155: one pass of the outer loop up to the new buffer
SeekDisposition ==
    /\ pc = "disposition"
    /\ line' = NextLine
    /\ offset' = offset + Len(NextLine)
    /\ IF ~StartsWith(NextLine, ContentDispositionPrefix)
       THEN UNCHANGED <<pc, form_name, filename, buf>>
       ELSE LET header == rstrip(NextLine)
            IN  /\ form_name' = get_header_opt(<<"n", "a", "m", "e">>, header)
                /\ filename' = get_header_opt(<<"f", "i", "l", "e", "n", "a", "m", "e">>, header)
                /\ buf' = NewBuf
                /\ pc' = "headers"
    /\ UNCHANGED <<content_type, req_body, boundary, separator, terminator,
                   multipart_form_data, src_parts, src_boundary, opt_vars, post_vars, race_vars>>

\* the loop that reads to the end of the headers, writing what it reads over
\* into the buffer
SeekEndOfHeadersKeeping ==
    /\ pc = "headers"
    /\ line' = NextLine
    /\ offset' = offset + Len(NextLine)
    /\ pc' = IF NextLine = CRLF THEN "body" ELSE "headers"
    /\ buf' = IF NextLine = CRLF THEN buf ELSE BufWrite(buf, NextLine)
    /\ UNCHANGED <<content_type, req_body, boundary, separator, terminator,
                   multipart_form_data, form_name, filename,
                   src_parts, src_boundary, opt_vars, post_vars, race_vars>>

\* lines 158-161: one pass of the loop that reads to the end of the headers
SeekEndOfHeaders ==
    /\ pc = "headers"
    /\ line' = NextLine
    /\ offset' = offset + Len(NextLine)
    /\ pc' = IF NextLine = CRLF THEN "body" ELSE "headers"
    /\ UNCHANGED <<content_type, req_body, boundary, separator, terminator,
                   multipart_form_data, form_name, filename, buf,
                   src_parts, src_boundary, opt_vars, post_vars, race_vars>>

\* lines 164-183: one pass of the loop that reads the content; on a delimiter
\* the part is appended, and on the terminator its buffer (shared with the
\* appended part) loses its last two bytes before the function returns
AccumulateBody ==
    /\ pc = "body"
    /\ line' = NextLine
    /\ offset' = offset + Len(NextLine)
    /\ IF ~IsDelimiter(NextLine, separator, terminator)
       THEN /\ buf' = BufWrite(buf, NextLine)
            /\ UNCHANGED <<pc, multipart_form_data>>
       ELSE IF NextLine # terminator
       THEN /\ multipart_form_data' = Append(multipart_form_data,
                [form_name |-> form_name, filename |-> filename, buf |-> buf])
            /\ pc' = "disposition"
            /\ UNCHANGED buf
       ELSE IF ~CanSeal(buf)
       THEN /\ multipart_form_data' = Append(multipart_form_data,
                [form_name |-> form_name, filename |-> filename, buf |-> buf])
            /\ pc' = "raised"
            /\ UNCHANGED buf
       ELSE /\ buf' = Seal(buf)
            /\ multipart_form_data' = Append(multipart_form_data,
                [form_name |-> form_name, filename |-> filename, buf |-> buf'])
            /\ pc' = "returned"
    /\ UNCHANGED <<content_type, req_body, boundary, separator, terminator,
                   form_name, filename, src_parts, src_boundary, opt_vars, post_vars, race_vars>>

\* ------------------------------------------------------------- do_POST
\* line 223: the call of parse_multipart has returned its list; an exception
\* it raises leaves do_POST at once
ParseEnded == pc \in {"returned", "raised"}

ParseReturned == pc = "returned"

\* lines 225-243: one pass of the loop over the returned parts
HandlePart ==
    /\ ParseReturned
    /\ response = "none"
    /\ handled < Len(multipart_form_data)
    /\ handled' = handled + 1
    /\ LET part == multipart_form_data[handled + 1]
           Save(name) ==
               /\ stored' = Append(stored,
                      [part |-> handled + 1,
                       path |-> FILEDIR \o <<"/">> \o name,
                       data |-> part.buf.data])
               /\ closed' = closed \cup {handled + 1}
       IN  IF part.form_name = <<"f", "i", "l", "e", "s">>
           THEN IF part.filename = <<>>
                THEN UNCHANGED <<stored, closed>>
                ELSE Save(part.filename)
           ELSE IF part.form_name = <<"t", "e", "x", "t">>
           THEN IF part.buf.pos = 0
                THEN UNCHANGED <<stored, closed>>
                ELSE \E r \in RandB32 : Save(<<"t", "e", "x", "t", "_">> \o r \o <<".", "t", "x", "t">>)
           ELSE UNCHANGED <<stored, closed>>
    /\ UNCHANGED <<parse_vars, opt_vars, response, race_vars>>

\* lines 246, 275-281
SendRedirect ==
    /\ ParseReturned
    /\ response = "none"
    /\ handled = Len(multipart_form_data)
    /\ response' = "302"
    /\ UNCHANGED <<parse_vars, opt_vars, handled, stored, closed, race_vars>>

Next ==
    \/ Start
    \/ SeekFirstBoundary
    \/ SeekDisposition
    \/ SeekEndOfHeaders
    \/ AccumulateBody
    \/ HandlePart
    \/ SendRedirect

Spec == Init /\ [][Next]_vars

\* ------------------------------------------------------------- get_header_opt alone
\* the pieces headers are built from
HeaderTokens == {<<"n", "a", "m", "e", "=">>, <<"f", "i", "l", "e">>, <<QUOTE>>, <<" ">>, <<";">>, <<"a", " ", "b">>}
OptKeys == {<<"n", "a", "m", "e">>, <<"f", "i", "l", "e", "n", "a", "m", "e">>}

InitOpt ==
    /\ InitLocals
    /\ InitHandler
    /\ InitNoRace
    /\ content_type = ContentTypeBare(BoundaryX)
    /\ req_body = <<>>
    /\ src_parts = <<>>
    /\ src_boundary = BoundaryX
    /\ opt_key \in OptKeys
    /\ \E ts \in SeqsUpTo(HeaderTokens, MaxTokens) : opt_header = Flatten(ts)
    /\ opt_value = <<>>
    /\ opt_pc = "call"

\* lines 113-125
CallGetHeaderOpt ==
    /\ opt_pc = "call"
    /\ opt_value' = get_header_opt(opt_key, opt_header)
    /\ opt_pc' = "done"
    /\ UNCHANGED <<content_type, req_body, offset, pc, boundary, separator,
                   terminator, multipart_form_data, line, form_name, filename,
                   buf, src_parts, src_boundary, opt_key, opt_header, post_vars, race_vars>>

NextOpt == CallGetHeaderOpt

SpecOpt == InitOpt /\ [][NextOpt]_vars

\* ------------------------------------------------------------- two uploads of one filename
\* bytes of the payloads of the two uploads
FileBytes == {"a", "b"}

\* what the file held before the uploads: nothing, or an earlier upload
EarlierFiles == {<<>>, <<"z", "z", "z">>}

\* the file after a descriptor opened in append mode has written data
WriteAppended(f, data) == f \o data

\* line 242: the file after a descriptor at offset 0 has written data
WriteAtStart(f, data) == data \o SubSeq(f, Len(data) + 1, Len(f))

\* two handler threads, each at line 240 with the buffer of a "files" part of
\* the same filename
InitRace ==
    /\ InitLocals
    /\ InitHandler
    /\ content_type = ContentTypeBare(BoundaryX)
    /\ req_body = <<>>
    /\ src_parts = <<>>
    /\ src_boundary = BoundaryX
    /\ opt_key = <<>>
    /\ opt_header = <<>>
    /\ opt_value = <<>>
    /\ opt_pc = "idle"
    /\ disk \in EarlierFiles
    /\ t_pc = [t \in Threads |-> "open"]
    /\ t_data \in [Threads -> SeqsUpTo(FileBytes, MaxFileLen)]

\* line 240: open(path, "wb") creates the file or cuts it to no bytes
OpenForWrite(t) ==
    /\ t_pc[t] = "open"
    /\ disk' = <<>>
    /\ t_pc' = [t_pc EXCEPT ![t] = "write"]
    /\ UNCHANGED <<parse_vars, opt_vars, post_vars, t_data>>

\* lines 241-243: the buffer is read from its start and written through the
\* thread's own descriptor, which is then closed
WriteAndClose(t) ==
    /\ t_pc[t] = "write"
    /\ disk' = WriteAtStart(disk, t_data[t])
    /\ t_pc' = [t_pc EXCEPT ![t] = "done"]
    /\ UNCHANGED <<parse_vars, opt_vars, post_vars, t_data>>

NextRace ==
    \E t \in Threads :
        \/ OpenForWrite(t)
        \/ WriteAndClose(t)

SpecRace == InitRace /\ [][NextRace]_vars

\* ------------------------------------------------------------- properties
\* parse_multipart has ended: it returned its list, or an exception left it
Finished == pc \in {"returned", "raised"}

\* parse_multipart is in one of its four loops, about to call readline()
Reading == pc \in {"first_boundary", "disposition", "headers", "body"}

\* the lines readline() cuts a byte string into, from read position p
RECURSIVE LinesFrom(_, _)
LinesFrom(s, p) ==
    IF p > Len(s) THEN {}
    ELSE {ReadLine(s, p)} \cup LinesFrom(s, p + Len(ReadLine(s, p)))

\* no line of the payload, as framed on the wire, is a delimiter line
DelimiterFree(payload, b) ==
    \A l \in LinesFrom(payload \o CRLF, 1) :
        l # <<"-", "-">> \o b \o CRLF /\ l # <<"-", "-">> \o b \o <<"-", "-">> \o CRLF

\* the body is the encoding of one or more parts under the boundary that the
\* Content-Type header declares, and no payload contains a delimiter line
WellFormed ==
    /\ src_parts # <<>>
    /\ src_boundary # <<>>
    /\ content_type \in {ContentTypeBare(src_boundary), ContentTypeQuoted(src_boundary)}
    /\ \A i \in DOMAIN src_parts : DelimiterFree(src_parts[i].payload, src_boundary)

\* C1: every part returned for a well-formed body has a buffer equal to its
\* source payload, without the CRLF that precedes its delimiter line, whether
\* a separator or the terminator ended it.
C1_BuffersEqualPayloads ==
    (pc = "returned" /\ WellFormed) =>
        \A i \in DOMAIN multipart_form_data \cap DOMAIN src_parts :
            multipart_form_data[i].buf.data = src_parts[i].payload

\* what a caller sees of a returned part
View(p) == [form_name |-> p.form_name, filename |-> p.filename, data |-> p.buf.data]

\* what a source part should decode to
NameParam(part) == IF part.has_name THEN part.name ELSE <<>>
FilenameParam(part) == IF part.has_filename THEN part.filename ELSE <<>>
Expected(part) ==
    [form_name |-> NameParam(part), filename |-> FilenameParam(part),
     data |-> part.payload]

\* a Content-Disposition line as in the wire format: a non-empty name first
WireDisposition(part) == part.has_name /\ part.name # <<>> /\ part.name_first

\* the body is the encoding of exactly one part under the declared boundary
SinglePart ==
    /\ Len(src_parts) = 1
    /\ src_boundary # <<>>
    /\ content_type \in {ContentTypeBare(src_boundary), ContentTypeQuoted(src_boundary)}
    /\ WireDisposition(src_parts[1])

\* the decode does not fail, never comes to read at the end of the stream
\* (every read before that moves offset forward, so it ends), and what it
\* returns is exactly the one source part
RoundTrips ==
    /\ pc # "raised"
    /\ Reading => offset < Len(req_body)
    /\ pc = "returned" =>
          /\ Len(multipart_form_data) = 1
          /\ View(multipart_form_data[1]) = Expected(src_parts[1])

\* C2 as stated: the round trip holds for any content C.
C2_RoundTripAnyContent == SinglePart => RoundTrips

\* C2: the round trip holds for any content C of which no line, as framed on
\* the wire, equals the separator or the terminator: a single-part body
\* decodes to one part with C as buffer and the name and filename of its
\* Content-Disposition line.
C2_RoundTrip ==
    (SinglePart /\ DelimiterFree(src_parts[1].payload, src_boundary)) => RoundTrips

C2_Witness ==
    /\ pc = "returned"
    /\ SinglePart
    /\ DelimiterFree(src_parts[1].payload, src_boundary)
    /\ \E k \in 1..(Len(src_parts[1].payload) - 2) :
           /\ src_parts[1].payload[k] = CR
           /\ src_parts[1].payload[k + 1] = LF
    /\ multipart_form_data[1].buf.data = src_parts[1].payload

\* C3: on a finite stream parse_multipart finishes.  Every read of a
\* non-empty line moves offset forward, so only reads at the end of the
\* stream can go on forever: each of them ends the decode, by a return or a
\* failure, in whichever loop it happens.
C3_Finishes ==
    [][(Reading /\ offset >= Len(req_body)) => Finished']_vars

\* C4: a read that finds the stream exhausted before the terminator was read
\* in the body ends the decode in a failure, so that no part is returned.
C4_EndOfStreamFails ==
    [][(Reading /\ offset >= Len(req_body)) => pc' = "raised"]_vars

\* C5: with a Content-Type value that has no boundary parameter the decode
\* fails at once: no line of the body is read and nothing is returned.
C5_NoBoundaryFailsAtOnce ==
    content_type = ContentTypeNoBoundary =>
        /\ pc \in {"start", "raised"}
        /\ offset = 0

\* C6: a well-formed body of N parts decodes to exactly N parts, the i-th
\* with the name, filename and body of the i-th source part.
C6_PartsInOrder ==
    (/\ pc = "returned"
     /\ WellFormed
     /\ \A i \in DOMAIN src_parts : WireDisposition(src_parts[i])) =>
        /\ Len(multipart_form_data) = Len(src_parts)
        /\ \A i \in DOMAIN src_parts :
               View(multipart_form_data[i]) = Expected(src_parts[i])

\* C7: while a body is accumulated, only a line equal byte for byte to
\* "--" boundary CRLF or "--" boundary "--" CRLF ends the part; any other
\* line is appended to the content and the decode stays in the body.
C7_BoundaryExactness ==
    [][pc = "body" =>
        IF \/ NextLine = <<"-", "-">> \o boundary \o CRLF
           \/ NextLine = <<"-", "-">> \o boundary \o <<"-", "-">> \o CRLF
        THEN /\ pc' # "body"
             /\ Len(multipart_form_data') = Len(multipart_form_data) + 1
        ELSE /\ pc' = "body"
             /\ buf'.data = buf.data \o NextLine
             /\ multipart_form_data' = multipart_form_data]_vars

\* a line that begins like the separator but ends in a bare LF was kept
C7_Witness ==
    /\ pc = "body"
    /\ line = <<"-", "-", "X", "\n">>
    /\ buf.data = line

\* C8: the decode returns only on reading the terminator line in the body,
\* having read the stream up to the end of that line and no further; a
\* delimiter line read while seeking a Content-Disposition line or the end
\* of the headers does not end the decode.
C8_ReturnsOnTerminator ==
    [][/\ (pc # "returned" /\ pc' = "returned") =>
            /\ pc = "body"
            /\ NextLine = <<"-", "-">> \o boundary \o <<"-", "-">> \o CRLF
            /\ offset' = offset + Len(NextLine)
            /\ SubSeq(req_body, offset + 1, offset') = NextLine
       /\ (/\ pc \in {"disposition", "headers"}
           /\ NextLine \in {<<"-", "-">> \o boundary \o CRLF,
                             <<"-", "-">> \o boundary \o <<"-", "-">> \o CRLF}) =>
            /\ ~Finished'
            /\ multipart_form_data' = multipart_form_data]_vars

\* returned with lines of the stream left unread after the terminator
C8_Witness ==
    /\ pc = "returned"
    /\ offset < Len(req_body)
    /\ line = <<"-", "-">> \o boundary \o <<"-", "-">> \o CRLF

\* C9: the field name of every returned part is the value of the name
\* parameter of its Content-Disposition line, empty when the line has none
\* or an empty one, whatever the order of name and filename.
C9_FieldNameIsNameParam ==
    (pc = "returned" /\ WellFormed) =>
        \A i \in DOMAIN multipart_form_data \cap DOMAIN src_parts :
            multipart_form_data[i].form_name = NameParam(src_parts[i])

\* where "key=" occurs in the header
Occurrences(key, header) ==
    {i \in 1..Len(header) :
        /\ i + Len(key) <= Len(header)
        /\ SubSeq(header, i, i + Len(key)) = key \o <<"=">>}

\* w is V without its leading and trailing whitespace
IsTrimOf(w, V) ==
    \E a \in 1..(Len(V) + 1) : \E b \in (a - 1)..Len(V) :
        /\ w = SubSeq(V, a, b)
        /\ \A k \in 1..(a - 1) : V[k] \in Whitespace
        /\ \A k \in (b + 1)..Len(V) : V[k] \in Whitespace
        /\ w # <<>> => (w[1] \notin Whitespace /\ w[Len(w)] \notin Whitespace)

\* C10: when the first "key=" of the header is followed by a quoted non-empty
\* V without double quotes the result is V trimmed; when it is followed by a
\* character that is not whitespace, a double quote or a semicolon the result
\* is the longest run of such characters; when "key=" does not occur the
\* result is empty.
C10_HeaderOpt ==
    opt_pc = "done" =>
        LET occ == Occurrences(opt_key, opt_header)
            v == Min(occ) + Len(opt_key) + 1
            quotes == {q \in (v + 1)..Len(opt_header) : opt_header[q] = QUOTE}
            stop == Whitespace \cup {QUOTE, ";"}
        IN  /\ occ = {} => opt_value = <<>>
            /\ (/\ occ # {}
                /\ v <= Len(opt_header)
                /\ opt_header[v] = QUOTE
                /\ quotes # {}
                /\ Min(quotes) >= v + 2) =>
                    IsTrimOf(opt_value, SubSeq(opt_header, v + 1, Min(quotes) - 1))
            /\ (/\ occ # {}
                /\ v <= Len(opt_header)
                /\ opt_header[v] \notin stop) =>
                    \E e \in v..Len(opt_header) :
                        /\ opt_value = SubSeq(opt_header, v, e)
                        /\ \A k \in v..e : opt_header[k] \notin stop
                        /\ e < Len(opt_header) => opt_header[e + 1] \in stop

\* a quoted value with an inner space and whitespace around it
C10_Witness ==
    /\ opt_pc = "done"
    /\ opt_key = <<"n", "a", "m", "e">>
    /\ opt_header = <<"n", "a", "m", "e", "=", "\"", " ", "a", " ", "b", "\"">>
    /\ opt_value = <<"a", " ", "b">>

C12_WritesAfterDecode ==
    [][stored' # stored =>
          /\ pc = "returned"
          /\ pc' = "returned"
          /\ UNCHANGED <<offset, multipart_form_data>>]_vars

\* a file part written, once its two-part body was decoded to the end
C12_Witness ==
    /\ pc = "returned"
    /\ offset = Len(req_body)
    /\ Len(multipart_form_data) = 2
    /\ Len(stored) = 1
    /\ stored[1].path = <<"t", "m", "p", "/", "f">>

\* a request body the spec calls malformed: the Content-Type value has no
\* boundary parameter, or no line of the body is the opening separator of the
\* declared boundary, or no line of it is the terminator
Malformed ==
    \/ content_type = ContentTypeNoBoundary
    \/ /\ content_type \in {ContentTypeBare(BoundaryX), ContentTypeQuoted(BoundaryX)}
       /\ \/ WireSeparator(BoundaryX) \notin LinesFrom(req_body, 1)
          \/ WireTerminator(BoundaryX) \notin LinesFrom(req_body, 1)

\* C13: a POST to /upload with a malformed body ends with a client-error
\* response: do_POST never answers it with the redirect, never ends on an
\* exception without a response, and answers once the stream has run out.
C13_MalformedGetsClientError ==
    [][Malformed =>
          /\ response' # "302"
          /\ pc' # "raised"
          /\ (Reading /\ offset >= Len(req_body)) => response' = "400"]_vars

\* C14: when do_POST sends its redirect, the buffer of every part that
\* parse_multipart returned has been closed, whether the part was saved or
\* skipped.
C14_AllBuffersClosed ==
    response = "302" => closed = DOMAIN multipart_form_data

\* do_POST has written a file for the i-th part of the body
Written(i) == \E k \in DOMAIN stored : stored[k].part = i

\* C15: once do_POST has been through the parts of a well-formed body, part i
\* has been written to storage exactly if it is a "files" part with a
\* non-empty filename or a "text" part with content of length above zero; a
\* part of any other name and a "text" part with an empty body, first or
\* last, have not.
C15_DispositionRule ==
    (/\ response = "302"
     /\ WellFormed
     /\ \A i \in DOMAIN src_parts : WireDisposition(src_parts[i])) =>
        \A i \in DOMAIN src_parts :
            Written(i) <=>
                \/ src_parts[i].name = <<"f", "i", "l", "e", "s">> /\ FilenameParam(src_parts[i]) # <<>>
                \/ src_parts[i].name = <<"t", "e", "x", "t">> /\ Len(src_parts[i].payload) > 0

\* C16: header lines of a part other than its Content-Disposition line,
\* before that line or between it and the blank line, change nothing: the
\* step that reads one leaves the name, the filename, the buffer and the
\* part list as they were, and the parts returned have the names, filenames
\* and content of the source parts (the content with or without the CRLF
\* that ends it), with no byte of those lines in any buffer.
C16_ExtraHeadersIgnored ==
    /\ [][(pc \in {"disposition", "headers"} /\ NextLine \in ExtraHeaderLines) =>
             UNCHANGED <<pc, form_name, filename, buf, multipart_form_data>>]_vars
    /\ []((/\ pc = "returned"
           /\ WellFormed
           /\ \A i \in DOMAIN src_parts : WireDisposition(src_parts[i])) =>
              /\ Len(multipart_form_data) = Len(src_parts)
              /\ \A i \in DOMAIN src_parts :
                    /\ multipart_form_data[i].form_name = Expected(src_parts[i]).form_name
                    /\ multipart_form_data[i].filename = Expected(src_parts[i]).filename
                    /\ multipart_form_data[i].buf.data \in
                           {src_parts[i].payload, src_parts[i].payload \o CRLF})

\* a file part sent with a header line on either side of its
\* Content-Disposition line, returned with its name, filename and content
C16_Witness ==
    /\ pc = "returned"
    /\ req_body = WireSeparator(BoundaryX) \o <<"C", "o", "n", "t", "e", "n", "t", "-", "T", "y", "p", "e", ":", " ", "t", "\r", "\n">>
                    \o <<"C", "o", "n", "t", "e", "n", "t", "-", "D", "i", "s", "p", "o", "s", "i", "t", "i", "o", "n", ":", " ", "f", "o", "r", "m", "-", "d", "a", "t", "a", ";", " ", "n", "a", "m", "e", "=", "\"", "f", "i", "l", "e", "s", "\"", ";", " ", "f", "i", "l", "e", "n", "a", "m", "e", "=", "\"", "f", "\"", "\r", "\n">>
                    \o <<"C", "o", "n", "t", "e", "n", "t", "-", "T", "y", "p", "e", ":", " ", "t", "\r", "\n", "X", "-", "A", ":", " ", "1", "\r", "\n">> \o CRLF
                    \o <<"a">> \o CRLF \o WireTerminator(BoundaryX)
    /\ Len(multipart_form_data) = 1
    /\ View(multipart_form_data[1]) =
           [form_name |-> <<"f", "i", "l", "e", "s">>, filename |-> <<"f">>, data |-> <<"a">>]

\* the line starts with the 20 bytes "Content-Disposition:"
IsDispositionLine(l) == Len(l) >= 20 /\ SubSeq(l, 1, 20) = <<"C", "o", "n", "t", "e", "n", "t", "-", "D", "i", "s", "p", "o", "s", "i", "t", "i", "o", "n", ":">>

\* C17: a line that starts with "Content-Disposition:" is appended to the
\* buffer as it is when it is read while a body is accumulated, and is
\* dropped when it is read while headers are skipped; in both cases no part
\* is begun or ended by it.  A part is begun only by such a line read while
\* the decode looks for one.
C17_DispositionOnlyWhenSought ==
    [][/\ (pc = "body" /\ IsDispositionLine(NextLine)) =>
              /\ buf'.data = buf.data \o NextLine
              /\ pc' = "body"
              /\ UNCHANGED <<form_name, filename, multipart_form_data>>
       /\ (pc = "headers" /\ IsDispositionLine(NextLine)) =>
              /\ pc' = "headers"
              /\ UNCHANGED <<form_name, filename, buf, multipart_form_data>>
       /\ (pc # "headers" /\ pc' = "headers") =>
              /\ pc = "disposition"
              /\ IsDispositionLine(NextLine)
              /\ buf' = NewBuf]_vars

\* the stream separator, Content-Disposition line twice, blank line,
\* Content-Disposition line: the second such line was dropped and the third is
\* the content of the one part begun
C17_Witness ==
    /\ pc = "body"
    /\ multipart_form_data = <<>>
    /\ offset = Len(WireSeparator(BoundaryX)) + 3 * Len(line) + 2
    /\ line = <<"C", "o", "n", "t", "e", "n", "t", "-", "D", "i", "s", "p", "o", "s", "i", "t", "i", "o", "n", ":", " ", "f", "o", "r", "m", "-", "d", "a", "t", "a", ";", " ", "n", "a", "m", "e", "=", "\"", "t", "e", "x", "t", "\"", "\r", "\n">>
    /\ buf.data = line

\* C18: on any stream, when parse_multipart comes to remove the last two
\* bytes of a buffer (the terminator was read while a body was accumulated),
\* the buffer holds at least two bytes and its last two are CR LF, and the
\* removal happens and takes exactly those two.
C18_SealRemovesOnlyCRLF ==
    [][(pc = "body" /\ NextLine = terminator) =>
          /\ Len(buf.data) >= 2
          /\ SubSeq(buf.data, Len(buf.data) - 1, Len(buf.data)) = CRLF
          /\ pc' = "returned"
          /\ buf'.data \o CRLF = buf.data]_vars

\* both uploads have written their file and closed it
BothDone == \A t \in Threads : t_pc[t] = "done"

\* C19 as stated: after two concurrent uploads of one filename the file is
\* the complete payload of one of them, under every interleaving.
C19_NoMixture ==
    BothDone => \E t \in Threads : disk = t_data[t]

\* C19 amended: after two concurrent uploads of one filename the file has the
\* length of one of the two payloads and each of its bytes is the byte one of
\* the payloads has at that offset; when the payloads are of one length the
\* file is one of them whole.
C19_BytewiseFromPayloads ==
    BothDone =>
        /\ \E t \in Threads : Len(disk) = Len(t_data[t])
        /\ \A k \in DOMAIN disk :
               \E t \in Threads : k <= Len(t_data[t]) /\ disk[k] = t_data[t][k]
        /\ Len(t_data[1]) = Len(t_data[2]) => \E t \in Threads : disk = t_data[t]

\* both opened, then "aa" written, then "b": the file is "ba"
C19_Witness ==
    /\ BothDone
    /\ t_data = [t \in Threads |-> IF t = 1 THEN <<"a", "a">> ELSE <<"b">>]
    /\ disk = <<"b", "a">>

====
